---- MODULE Spec2Model ----
(***************************************************************************)
(* Model of policytool/cli.py: the three click commands tags_to_atlas,     *)
(* rules_to_ranger and audit_tags, one run of one command per behaviour.   *)
(* The collaborators the commands call (tagsync, rangersync, template,     *)
(* the Atlas and Ranger clients) are modelled at their interface.          *)
(***************************************************************************)
EXTENDS Integers, Sequences, FiniteSets, TLC

\* ------------------------------------------------------------------ bounds
MaxRetryFlag == 2       \* occurrences of --retry on the command line: 0..MaxRetryFlag
MaxConfRetries == 3     \* values of the config key 'retries': 0..MaxConfRetries
MaxCommands == 2        \* commands in ranger_policies.json: 0..MaxCommands

\* ------------------------------------------------------- program constants
SLEEP_ON_RETRY_SECONDS == 60
DefaultRetries == 1     \* conf.get('retries', 1)

\* ------------------------------------------------------------ input domains
\* The per-environment config: a set of <<key, value>> pairs, with or without 'retries'.
Configs == {{}} \cup {{<<"retries", n>>} : n \in 0..MaxConfRetries}
Environment == "dev"
ProjectName == "proj"

TableFile == "table_tags.csv"
ColumnFile == "column_tags.csv"
PolicyFile == "ranger_policies.json"

\* Entity ids: <<schema, table>> and <<schema, table, column>>.
T1 == <<"db", "t1">>
T2 == <<"db", "t2">>
T3 == <<"db", "t3">>
CA == <<"db", "t1", "a">>
CB == <<"db", "t1", "b">>
CC == <<"db", "t1", "c">>

SrcTableIds == {T1, T2}       \* tables the source file may declare
AtlasTableIds == {T1, T3}     \* tables the catalog may hold
SrcColumnIds == {CA, CB}
AtlasColumnIds == {CA, CC}

\* Tag sets an entity may carry; "pii" and "PII" differ only by case.
SrcTagSets == {{}, {"pii"}}
AtlasTagSets == {{"dev"}, {"pii", "dev"}, {"PII", "dev"}}
AtlasVocabularies == {{"pii"}, {"dev", "pii"}, {"dev", "pii", "PII", "new"}}

EmptyMap == [x \in {} |-> {}]

VARIABLES
    cmd,            \* the command of this run
    pc,             \* position in the command's body
    outcome,        \* how the command ended, Running until then
    retry,          \* --retry count
    conf,           \* JSONPropertiesFile(config).get(environment)
    verbose,        \* --verbose count
    dryrun,         \* --dryrun flag
    present,        \* source files that exist in srcdir
    fileTables,     \* rows of table_tags.csv: id -> tags
    fileColumns,    \* rows of column_tags.csv: id -> tags
    atlasTables,    \* catalog: table id -> tags
    atlasColumns,   \* catalog: column id -> tags
    atlasTags,      \* catalog: global tag vocabulary
    trace,          \* clients constructed, remote calls issued and sleeps, in order
    maxRetries,     \* retry budget held by the tagsync.Sync object
    tries,          \* retries used so far by the running sync_*_tags call
    src_data_table, \* rows after add_environment
    src_data_column,
    full_tables_atlas,   \* sync_client.tables_from_atlas(schemas)
    full_columns_atlas,  \* sync_client.columns_from_atlas(tables)
    output,         \* lines printed, in order
    policyFile,     \* ranger_policies.json: the sequence of policy commands
    rangerPolicies, \* policy service: policy name -> body
    policies,       \* rangersync.apply_commands(policy_commands, context)
    next,           \* index of the next policy sync_policies handles
    actions         \* actions RangerSync described, in order

inputVars == <<cmd, retry, conf, verbose, dryrun, present, fileTables, fileColumns, policyFile>>
catalogVars == <<atlasTables, atlasColumns, atlasTags>>
syncVars == <<maxRetries, tries>>
dataVars == <<src_data_table, src_data_column, full_tables_atlas, full_columns_atlas>>
rangerVars == <<rangerPolicies, policies, next, actions>>
vars == <<inputVars, catalogVars, syncVars, dataVars, rangerVars, pc, outcome, trace, output>>

\* ----------------------------------------------------------------- trace
\* One entry per client construction, remote call or sleep: res is what the
\* call answered, arg the delay of a sleep and 0 otherwise.
Ev(op, res) == [op |-> op, arg |-> 0, res |-> res]
SleepEv(seconds) == [op |-> "sleep", arg |-> seconds, res |-> "ok"]

WriteOps == {"pushTableTags", "pushColumnTags", "ranger_create", "ranger_update", "ranger_delete"}

Indices(seq, op) == {i \in DOMAIN seq : seq[i].op = op}
Count(seq, op) == Cardinality(Indices(seq, op))

\* ---------------------------------------------------------------- output
\* A printed line: its text, the entity it is about (<<>> if none), the names it lists.
Line(kind, id, items) == [kind |-> kind, id |-> id, items |-> items]
Msg(text) == Line(text, <<>>, {})

\* -------------------------------------------------------------- outcomes
Running == [kind |-> "running"]
Return0 == [kind |-> "return0"]        \* 'return 0' after the missing-files message
Completed == [kind |-> "completed"]    \* fell off the end of the command
\* click.ClickException(message): rerun tells whether the message carries
\* " Tag sync not complete, fix errors and re-run."
ClickException(cause, rerun) == [kind |-> "ClickException", cause |-> cause, rerun |-> rerun]
\* an exception no handler of the command catches
Uncaught(cause) == [kind |-> "uncaught", cause |-> cause]

\* ------------------------------------------------------ cli.py helpers
\* variant: the test 'not os.path.isfile(f)' without its 'not'
MissingFilesInverted(files) == {f \in files : f \in present}

\* _missing_files(files): the files of the list that do not exist
_missing_files(files) == {f \in files : f \notin present}

\* the two lines printed before 'return 0'
MissingFilesLines == <<Msg("Following files are missing"), Msg("Will not run, exiting!")>>

\* dict.get(key, default)
Get(c, key, default) ==
    IF \E p \in c : p[1] = key THEN (CHOOSE p \in c : p[1] = key)[2] ELSE default

\* variant: the flag count added to the configured retries
RetryBudgetAdded(r, c) == r + Get(c, "retries", DefaultRetries)

\* variant: the configured retries alone, the flag only switching retry on
RetryBudgetConfigured(r, c) == IF r > 0 THEN Get(c, "retries", DefaultRetries) ELSE 0

\* retry*conf.get('retries', 1): the budget handed to tagsync.Sync
RetryBudget(r, c) == r * Get(c, "retries", DefaultRetries)

\* variant: a handler for tagsync.SyncError alone
TagsToAtlasExceptSyncError(e) ==
    IF e = "SyncError" THEN ClickException(e, TRUE) ELSE Uncaught(e)

\* except (tagsync.SyncError, IOError) as e: raise ClickException(e.message + " Tag sync ...")
TagsToAtlasExcept(e) ==
    IF e \in {"SyncError", "IOError"} THEN ClickException(e, TRUE) ELSE Uncaught(e)

\* ------------------------------------------------------ tagsync (interface)
\* add_environment(rows, env): env joins every row's tag set
add_environment(rows, env) == [id \in DOMAIN rows |-> rows[id] \cup {env}]

\* effect of a successful push: the entities the catalog holds get the source tags
PushTags(catalog, rows) ==
    [id \in DOMAIN catalog |-> IF id \in DOMAIN rows THEN catalog[id] \cup rows[id] ELSE catalog[id]]

\* tagsync.Sync: a SyncError is retried while retries remain in the budget
ShouldRetry(res, used, budget) == res = "SyncError" /\ used < budget

\* what tagsync.read_file may raise: an unreadable file, a malformed one
ReadFileErrors == {"IOError", "MalformedSourceError"}

\* what one remote write may answer
PushResults == {"ok", "SyncError", "IOError"}

\* ------------------------------------------------------------ tags_to_atlas
\* Lines 48-59: the missing-files check, then the clients.
TagsToAtlasStart ==
    /\ cmd = "tags_to_atlas" /\ pc = "start"
    /\ IF _missing_files({TableFile, ColumnFile}) # {}
       THEN /\ output' = output \o MissingFilesLines
            /\ outcome' = Return0
            /\ pc' = "done"
            /\ UNCHANGED <<trace, maxRetries>>
       ELSE /\ trace' = Append(trace, Ev("atlas.Client", "ok"))
            /\ maxRetries' = RetryBudget(retry, conf)
            /\ pc' = "read_table"
            /\ UNCHANGED <<output, outcome>>
    /\ UNCHANGED <<inputVars, rangerVars, catalogVars, dataVars, tries>>

\* Lines 62-64: the verbose line and tagsync.read_file(table_file).
TagsToAtlasReadTables ==
    /\ cmd = "tags_to_atlas" /\ pc = "read_table"
    /\ output' = IF verbose > 0 THEN Append(output, Msg("Syncing tags for tables.")) ELSE output
    /\ \/ /\ src_data_table' = add_environment(fileTables, Environment)
          /\ tries' = 0
          /\ pc' = "sync_table"
          /\ UNCHANGED outcome
       \/ \E e \in ReadFileErrors :
            /\ outcome' = TagsToAtlasExcept(e)
            /\ pc' = "done"
            /\ UNCHANGED <<src_data_table, tries>>
    /\ UNCHANGED <<inputVars, rangerVars, catalogVars, maxRetries, src_data_column, full_tables_atlas, full_columns_atlas, trace>>

\* variant: a failed table sync is reported and the command goes on to the columns
TagsToAtlasSyncTablesGoOn ==
    /\ cmd = "tags_to_atlas" /\ pc = "sync_table"
    /\ \E res \in PushResults :
        /\ trace' = IF ShouldRetry(res, tries, maxRetries)
                    THEN trace \o <<Ev("pushTableTags", res), SleepEv(SLEEP_ON_RETRY_SECONDS)>>
                    ELSE Append(trace, Ev("pushTableTags", res))
        /\ tries' = IF ShouldRetry(res, tries, maxRetries) THEN tries + 1 ELSE tries
        /\ pc' = IF ShouldRetry(res, tries, maxRetries) THEN pc ELSE "read_column"
        /\ atlasTables' = IF res = "ok" THEN PushTags(atlasTables, src_data_table) ELSE atlasTables
    /\ UNCHANGED <<inputVars, rangerVars, atlasColumns, atlasTags, maxRetries, dataVars,
                   outcome, output>>

\* Line 65: one attempt of sync_client.sync_table_tags, retried on SyncError
\* while the budget lasts, with a sleep before the next attempt.
TagsToAtlasSyncTables ==
    /\ cmd = "tags_to_atlas" /\ pc = "sync_table"
    /\ \E res \in PushResults :
        \/ /\ res = "ok"
           /\ atlasTables' = PushTags(atlasTables, src_data_table)
           /\ trace' = Append(trace, Ev("pushTableTags", res))
           /\ output' = IF verbose > 0
                        THEN output \o <<Msg("worklog"), Msg("Syncing tags for columns.")>>
                        ELSE output
           /\ pc' = "read_column"
           /\ UNCHANGED <<tries, outcome>>
        \/ /\ ShouldRetry(res, tries, maxRetries)
           /\ atlasTables' \in {atlasTables, PushTags(atlasTables, src_data_table)}
           /\ trace' = trace \o <<Ev("pushTableTags", res), SleepEv(SLEEP_ON_RETRY_SECONDS)>>
           /\ tries' = tries + 1
           /\ UNCHANGED <<pc, outcome, output>>
        \/ /\ res # "ok" /\ ~ShouldRetry(res, tries, maxRetries)
           /\ atlasTables' \in {atlasTables, PushTags(atlasTables, src_data_table)}
           /\ trace' = Append(trace, Ev("pushTableTags", res))
           /\ outcome' = TagsToAtlasExcept(res)
           /\ pc' = "done"
           /\ UNCHANGED <<tries, output>>
    /\ UNCHANGED <<inputVars, rangerVars, atlasColumns, atlasTags, maxRetries, dataVars>>

\* Line 69: tagsync.read_file(column_file).
TagsToAtlasReadColumns ==
    /\ cmd = "tags_to_atlas" /\ pc = "read_column"
    /\ \/ /\ src_data_column' = add_environment(fileColumns, Environment)
          /\ tries' = 0
          /\ pc' = "sync_column"
          /\ UNCHANGED outcome
       \/ \E e \in ReadFileErrors :
            /\ outcome' = TagsToAtlasExcept(e)
            /\ pc' = "done"
            /\ UNCHANGED <<src_data_column, tries>>
    /\ UNCHANGED <<inputVars, rangerVars, catalogVars, maxRetries, src_data_table, full_tables_atlas, full_columns_atlas, trace, output>>

\* Lines 70-72: one attempt of sync_client.sync_column_tags.
TagsToAtlasSyncColumns ==
    /\ cmd = "tags_to_atlas" /\ pc = "sync_column"
    /\ \E res \in PushResults :
        \/ /\ res = "ok"
           /\ atlasColumns' = PushTags(atlasColumns, src_data_column)
           /\ trace' = Append(trace, Ev("pushColumnTags", res))
           /\ output' = IF verbose > 0 THEN Append(output, Msg("worklog")) ELSE output
           /\ outcome' = Completed
           /\ pc' = "done"
           /\ UNCHANGED tries
        \/ /\ ShouldRetry(res, tries, maxRetries)
           /\ atlasColumns' \in {atlasColumns, PushTags(atlasColumns, src_data_column)}
           /\ trace' = trace \o <<Ev("pushColumnTags", res), SleepEv(SLEEP_ON_RETRY_SECONDS)>>
           /\ tries' = tries + 1
           /\ UNCHANGED <<pc, outcome, output>>
        \/ /\ res # "ok" /\ ~ShouldRetry(res, tries, maxRetries)
           /\ atlasColumns' \in {atlasColumns, PushTags(atlasColumns, src_data_column)}
           /\ trace' = Append(trace, Ev("pushColumnTags", res))
           /\ outcome' = TagsToAtlasExcept(res)
           /\ pc' = "done"
           /\ UNCHANGED <<tries, output>>
    /\ UNCHANGED <<inputVars, rangerVars, atlasTables, atlasTags, maxRetries, dataVars>>

\* ------------------------------------------------------ tagsync (audit side)
\* tags_from_src(rows): every tag some row carries
tags_from_src(rows) == UNION {rows[id] : id \in DOMAIN rows}

\* schemas_from_src(rows): the schemas the rows name
schemas_from_src(rows) == {id[1] : id \in DOMAIN rows}

\* tables_from_src(rows): the schema.table ids the rows name
tables_from_src(rows) == {<<id[1], id[2]>> : id \in DOMAIN rows}

\* columns_from_src(rows): the schema.table.column ids the rows name
columns_from_src(rows) == DOMAIN rows

\* Sync.tables_from_atlas(schemas): the catalog's tables of these schemas
tables_from_atlas(schemas) ==
    [id \in {t \in DOMAIN atlasTables : t[1] \in schemas} |-> atlasTables[id]]

\* Sync.columns_from_atlas(tables): the catalog's columns of these tables
columns_from_atlas(tables) ==
    [id \in {c \in DOMAIN atlasColumns : <<c[1], c[2]>> \in tables} |-> atlasColumns[id]]

\* diff_table_tags / diff_column_tags: for every entity on both sides,
\* (tags only in source, tags only in catalog)
diff_tags(src, atlas) ==
    [id \in DOMAIN src \cap DOMAIN atlas |-> <<src[id] \ atlas[id], atlas[id] \ src[id]>>]

\* the orders in which 'for d in diffs' may walk a dict
Orders(S) == {o \in [1..Cardinality(S) -> S] : \A i, j \in DOMAIN o : o[i] = o[j] => i = j}

\* ---------------------------------------------------------------- audit_tags
\* except IOError as e: raise ClickException(e.message)
AuditExcept(e) == IF e = "IOError" THEN ClickException(e, FALSE) ELSE Uncaught(e)

\* variant: the two sides of the pair taken in the other order
DiffLinesSwapped(diffs, d, what) ==
    (IF diffs[d][2] # {}
     THEN <<Line("Atlas missing following tags for " \o what, d, diffs[d][2])>> ELSE <<>>)
    \o
    (IF diffs[d][1] # {}
     THEN <<Line("Metadata missing following tags for " \o what, d, diffs[d][1])>> ELSE <<>>)

\* Lines 185-190 and 194-199: up to two lines for the entity d of diffs
DiffLines(diffs, d, what) ==
    (IF diffs[d][1] # {}
     THEN <<Line("Atlas missing following tags for " \o what, d, diffs[d][1])>> ELSE <<>>)
    \o
    (IF diffs[d][2] # {}
     THEN <<Line("Metadata missing following tags for " \o what, d, diffs[d][2])>> ELSE <<>>)

RECURSIVE AllDiffLines(_, _, _)
AllDiffLines(diffs, order, what) ==
    IF order = <<>> THEN <<>>
    ELSE DiffLines(diffs, Head(order), what) \o AllDiffLines(diffs, Tail(order), what)

\* Line 155-157: the tags of the source that the catalog does not know
UnknownTagLines(table_tags, column_tags, atlas_tags) ==
    LET diff_tags_ == (table_tags \cup column_tags) \ atlas_tags
    IN IF diff_tags_ # {} THEN <<Line("Tag(s) missing in Atlas", <<>>, diff_tags_)>> ELSE <<>>

\* variant: the two table lines in the other order
TableLinesSwapped(tables_atlas, tables_src) ==
    (IF tables_src \ tables_atlas # {}
     THEN <<Line("Tables only found in metadata schema", <<>>, tables_src \ tables_atlas)>> ELSE <<>>)
    \o
    (IF tables_atlas \ tables_src # {}
     THEN <<Line("Tables only found in Atlas schema", <<>>, tables_atlas \ tables_src)>> ELSE <<>>)

\* Lines 165-173: tables only in Atlas, then tables only in the source
TableLines(tables_atlas, tables_src) ==
    (IF tables_atlas \ tables_src # {}
     THEN <<Line("Tables only found in Atlas schema", <<>>, tables_atlas \ tables_src)>> ELSE <<>>)
    \o
    (IF tables_src \ tables_atlas # {}
     THEN <<Line("Tables only found in metadata schema", <<>>, tables_src \ tables_atlas)>> ELSE <<>>)

\* variant: the columns of either side that the other lacks
ColumnLinesSymmetric(columns_atlas, columns_src) ==
    IF (columns_src \ columns_atlas) \cup (columns_atlas \ columns_src) # {}
    THEN <<Line("Columns only found in metadata", <<>>,
                (columns_src \ columns_atlas) \cup (columns_atlas \ columns_src))>>
    ELSE <<>>

\* Lines 177-181: columns only in the source
ColumnLines(columns_atlas, columns_src) ==
    IF columns_src \ columns_atlas # {}
    THEN <<Line("Columns only found in metadata", <<>>, columns_src \ columns_atlas)>> ELSE <<>>

\* Lines 134-145: the missing-files check, then the clients.
AuditStart ==
    /\ cmd = "audit_tags" /\ pc = "start"
    /\ IF _missing_files({TableFile, ColumnFile}) # {}
       THEN /\ output' = output \o MissingFilesLines
            /\ outcome' = Return0
            /\ pc' = "done"
            /\ UNCHANGED trace
       ELSE /\ trace' = Append(trace, Ev("atlas.Client", "ok"))
            /\ pc' = "read_src"
            /\ UNCHANGED <<output, outcome>>
    /\ UNCHANGED <<inputVars, rangerVars, catalogVars, dataVars, syncVars>>

\* Lines 148-149: both source files, stamped with the environment.
AuditReadSrc ==
    /\ cmd = "audit_tags" /\ pc = "read_src"
    /\ \/ /\ src_data_table' = add_environment(fileTables, Environment)
          /\ src_data_column' = add_environment(fileColumns, Environment)
          /\ pc' = "tags_from_atlas"
          /\ UNCHANGED outcome
       \/ \E e \in ReadFileErrors :
            /\ outcome' = AuditExcept(e)
            /\ pc' = "done"
            /\ UNCHANGED <<src_data_table, src_data_column>>
    /\ UNCHANGED <<inputVars, rangerVars, catalogVars, syncVars, full_tables_atlas, full_columns_atlas,
                   trace, output>>

\* Lines 152-157: the catalog's tag vocabulary and the unknown tags.
AuditUnknownTags ==
    /\ cmd = "audit_tags" /\ pc = "tags_from_atlas"
    /\ \/ /\ trace' = Append(trace, Ev("tags_from_atlas", "ok"))
          /\ output' = output \o UnknownTagLines(tags_from_src(src_data_table),
                                                 tags_from_src(src_data_column), atlasTags)
          /\ pc' = "tables_from_atlas"
          /\ UNCHANGED outcome
       \/ /\ trace' = Append(trace, Ev("tags_from_atlas", "IOError"))
          /\ outcome' = AuditExcept("IOError")
          /\ pc' = "done"
          /\ UNCHANGED output
    /\ UNCHANGED <<inputVars, rangerVars, catalogVars, syncVars, dataVars>>

\* Lines 159-160: the catalog's tables of the source's schemas.
AuditTablesFromAtlas ==
    /\ cmd = "audit_tags" /\ pc = "tables_from_atlas"
    /\ \/ /\ trace' = Append(trace, Ev("tables_from_atlas", "ok"))
          /\ full_tables_atlas' = tables_from_atlas(schemas_from_src(src_data_table))
          /\ pc' = "columns_from_atlas"
          /\ UNCHANGED outcome
       \/ /\ trace' = Append(trace, Ev("tables_from_atlas", "IOError"))
          /\ outcome' = AuditExcept("IOError")
          /\ pc' = "done"
          /\ UNCHANGED full_tables_atlas
    /\ UNCHANGED <<inputVars, rangerVars, catalogVars, syncVars, src_data_table, src_data_column,
                   full_columns_atlas, output>>

\* Lines 161-162: the catalog's columns of the tables the column file names.
AuditColumnsFromAtlas ==
    /\ cmd = "audit_tags" /\ pc = "columns_from_atlas"
    /\ \/ /\ trace' = Append(trace, Ev("columns_from_atlas", "ok"))
          /\ full_columns_atlas' = columns_from_atlas(tables_from_src(src_data_column))
          /\ pc' = "report"
          /\ UNCHANGED outcome
       \/ /\ trace' = Append(trace, Ev("columns_from_atlas", "IOError"))
          /\ outcome' = AuditExcept("IOError")
          /\ pc' = "done"
          /\ UNCHANGED full_columns_atlas
    /\ UNCHANGED <<inputVars, rangerVars, catalogVars, syncVars, src_data_table, src_data_column,
                   full_tables_atlas, output>>

\* variant: the report, followed by a push of the source's table tags
AuditReportPushing ==
    /\ cmd = "audit_tags" /\ pc = "report"
    /\ output' = output
            \o TableLines(DOMAIN full_tables_atlas, tables_from_src(src_data_table))
            \o ColumnLines(DOMAIN full_columns_atlas, columns_from_src(src_data_column))
    /\ atlasTables' = PushTags(atlasTables, src_data_table)
    /\ trace' = Append(trace, Ev("pushTableTags", "ok"))
    /\ outcome' = Completed
    /\ pc' = "done"
    /\ UNCHANGED <<inputVars, rangerVars, atlasColumns, atlasTags, syncVars, dataVars>>

\* Lines 164-199: the table, column and tag-difference sections.
AuditReport ==
    /\ cmd = "audit_tags" /\ pc = "report"
    /\ LET tdiffs == diff_tags(src_data_table, full_tables_atlas)
           cdiffs == diff_tags(src_data_column, full_columns_atlas)
       IN \E torder \in Orders(DOMAIN tdiffs), corder \in Orders(DOMAIN cdiffs) :
            output' = output
                \o TableLines(DOMAIN full_tables_atlas, tables_from_src(src_data_table))
                \o ColumnLines(DOMAIN full_columns_atlas, columns_from_src(src_data_column))
                \o AllDiffLines(tdiffs, torder, "table")
                \o AllDiffLines(cdiffs, corder, "column")
    /\ outcome' = Completed
    /\ pc' = "done"
    /\ UNCHANGED <<inputVars, rangerVars, catalogVars, syncVars, dataVars, trace>>

\* ------------------------------------------------------- template (interface)
\* A policy command is the template of a policy name: a sequence of tokens,
\* <<"lit", text>> or <<"var", key>>, a placeholder for the context's key.
Lit(text) == <<"lit", text>>
Var(key) == <<"var", key>>

\* Lines 116-117: the variables of the config, by name
Variables(c) == Get(c, "variables", <<>>)

\* Lines 108-119: the keys of Context(context_dict); "table" stands for an
\* entry of context_dict["tables"]
ContextKeys(c) ==
    {"project_name", "environment", "table"}
        \cup {Variables(c)[i].name : i \in DOMAIN Variables(c)}

\* the text a token resolves to, for the table the fan-out is at
Resolve(token, c, table) ==
    CASE token[1] = "lit" -> token[2]
      [] token = Var("project_name") -> ProjectName
      [] token = Var("environment") -> Environment
      [] token = Var("table") -> table[2]
      [] OTHER ->
            LET i == CHOOSE k \in DOMAIN Variables(c) : Variables(c)[k].name = token[2]
            IN Variables(c)[i].value

\* a policy: its resolved name and its body
Policy(template, c, table) ==
    [name |-> [i \in DOMAIN template |-> Resolve(template[i], c, table)], body |-> "new"]

\* the rows of the table file in file order
RECURSIVE TableOrder(_, _)
TableOrder(rows, candidates) ==
    IF candidates = <<>> THEN <<>>
    ELSE (IF Head(candidates) \in DOMAIN rows THEN <<Head(candidates)>> ELSE <<>>)
         \o TableOrder(rows, Tail(candidates))

\* one policy per table for a command that names {table}, else one policy
RECURSIVE FanOut(_, _, _)
FanOut(template, c, tables) ==
    IF tables = <<>> THEN <<>>
    ELSE <<Policy(template, c, Head(tables))>> \o FanOut(template, c, Tail(tables))

Expand(template, c, tables) ==
    IF \E i \in DOMAIN template : template[i] = Var("table")
    THEN FanOut(template, c, tables)
    ELSE <<Policy(template, c, <<"", "">>)>>

\* rangersync.apply_commands(commands, context): the policies in command order
RECURSIVE apply_commands(_, _, _)
apply_commands(commands, c, tables) ==
    IF commands = <<>> THEN <<>>
    ELSE Expand(Head(commands), c, tables) \o apply_commands(Tail(commands), c, tables)

\* a placeholder the context cannot resolve
Unresolved(commands, c) ==
    \E k \in DOMAIN commands : \E i \in DOMAIN commands[k] :
        commands[k][i][1] = "var" /\ commands[k][i][2] \notin ContextKeys(c)

\* ------------------------------------------------------ rangersync (interface)
StartsWith(name, prefix) ==
    Len(name) >= Len(prefix) /\ SubSeq(name, 1, Len(prefix)) = prefix

\* the policies of the service this run owns
Owned(remote, prefixes) ==
    {n \in DOMAIN remote : \E k \in DOMAIN prefixes : StartsWith(n, prefixes[k])}

Names(ps) == {ps[i].name : i \in DOMAIN ps}

\* owned policies of the service that the new set supersedes
Stale(remote, prefixes, ps) == Owned(remote, prefixes) \ Names(ps)

Action(kind, name) == [action |-> kind, name |-> name]

\* [project_name + '_' + environment, 'load_etl_']
Prefixes == <<<<ProjectName, "_", Environment>>, <<"load_etl_">>>>
\* ----------------------------------------------------------- rules_to_ranger
\* Lines 85-99: the missing-files check, then the clients.
RulesToRangerStart ==
    /\ cmd = "rules_to_ranger" /\ pc = "start"
    /\ IF _missing_files({TableFile, ColumnFile, PolicyFile}) # {}
       THEN /\ output' = output \o MissingFilesLines
            /\ outcome' = Return0
            /\ pc' = "done"
            /\ UNCHANGED trace
       ELSE /\ trace' = Append(trace, Ev("ranger.Client", "ok"))
            /\ pc' = "load"
            /\ UNCHANGED <<output, outcome>>
    /\ UNCHANGED <<inputVars, rangerVars, catalogVars, dataVars, syncVars>>

\* no handler: whatever is raised leaves the command as it is
RulesToRangerExcept(e) == Uncaught(e)

\* variant: RangerSync(ranger_client, dryrun, verbose), the two arguments swapped
SyncerDryrunSwapped == verbose > 0

\* the dryrun argument of rangersync.RangerSync(ranger_client, verbose, dryrun)
SyncerDryrun == dryrun

\* Lines 101-124: the source files, the context, the policy file, the expansion.
RulesToRangerLoad ==
    /\ cmd = "rules_to_ranger" /\ pc = "load"
    /\ \/ /\ ~Unresolved(policyFile, conf)
          /\ policies' = apply_commands(policyFile, conf, TableOrder(fileTables, <<T1, T2>>))
          /\ next' = 1
          /\ pc' = "sync"
          /\ UNCHANGED outcome
       \/ /\ Unresolved(policyFile, conf)
          /\ outcome' = RulesToRangerExcept("TemplateError")
          /\ pc' = "done"
          /\ UNCHANGED <<policies, next>>
       \/ \E e \in ReadFileErrors :
            /\ outcome' = RulesToRangerExcept(e)
            /\ pc' = "done"
            /\ UNCHANGED <<policies, next>>
    /\ UNCHANGED <<inputVars, catalogVars, dataVars, syncVars, rangerPolicies, actions,
                   trace, output>>

\* Line 125, sync_policies: the next policy is created, or updated if the service has it.
RulesToRangerUpsert ==
    /\ cmd = "rules_to_ranger" /\ pc = "sync" /\ next <= Len(policies)
    /\ LET p == policies[next]
           kind == IF p.name \in DOMAIN rangerPolicies THEN "update" ELSE "create"
       IN \/ /\ SyncerDryrun
             /\ trace' = Append(trace, Ev("ranger_get_policies", "ok"))
             /\ actions' = Append(actions, Action(kind, p.name))
             /\ next' = next + 1
             /\ UNCHANGED <<rangerPolicies, output, outcome, pc>>
          \/ /\ ~SyncerDryrun
             /\ trace' = trace \o <<Ev("ranger_get_policies", "ok"), Ev("ranger_" \o kind, "ok")>>
             /\ rangerPolicies' = [n \in DOMAIN rangerPolicies \cup {p.name} |->
                                      IF n = p.name THEN p.body ELSE rangerPolicies[n]]
             /\ output' = IF verbose > 0
                          THEN Append(output, Line(kind, p.name, {})) ELSE output
             /\ next' = next + 1
             /\ UNCHANGED <<actions, outcome, pc>>
          \/ /\ trace' = Append(trace, Ev("ranger_get_policies", "IOError"))
             /\ outcome' = RulesToRangerExcept("IOError")
             /\ pc' = "done"
             /\ UNCHANGED <<rangerPolicies, actions, next, output>>
    /\ UNCHANGED <<inputVars, catalogVars, dataVars, syncVars, policies>>

\* stale policies not handled yet
Pending ==
    Stale(rangerPolicies, Prefixes, policies)
        \ {actions[i].name : i \in {k \in DOMAIN actions : actions[k].action = "delete"}}

\* Line 125, sync_policies: an owned policy that the new set lacks is deleted.
RulesToRangerDelete ==
    /\ cmd = "rules_to_ranger" /\ pc = "sync" /\ next > Len(policies)
    /\ \E n \in Pending :
          \/ /\ SyncerDryrun
             /\ actions' = Append(actions, Action("delete", n))
             /\ UNCHANGED <<rangerPolicies, trace, output, outcome, pc>>
          \/ /\ ~SyncerDryrun
             /\ trace' = Append(trace, Ev("ranger_delete", "ok"))
             /\ rangerPolicies' = [m \in DOMAIN rangerPolicies \ {n} |-> rangerPolicies[m]]
             /\ output' = IF verbose > 0
                          THEN Append(output, Line("delete", n, {})) ELSE output
             /\ UNCHANGED <<actions, outcome, pc>>
          \/ /\ ~SyncerDryrun
             /\ trace' = Append(trace, Ev("ranger_delete", "IOError"))
             /\ outcome' = RulesToRangerExcept("IOError")
             /\ pc' = "done"
             /\ UNCHANGED <<rangerPolicies, actions, output>>
    /\ UNCHANGED <<inputVars, catalogVars, dataVars, syncVars, policies, next>>

\* Line 125: sync_policies returns, the command ends.
RulesToRangerDone ==
    /\ cmd = "rules_to_ranger" /\ pc = "sync" /\ next > Len(policies)
    /\ Pending = {}
    /\ outcome' = Completed
    /\ pc' = "done"
    /\ UNCHANGED <<inputVars, catalogVars, dataVars, syncVars, rangerVars, trace, output>>

\* -------------------------------------------------------------------- inputs
CmdAll == <<Var("project_name"), Lit("_"), Var("environment"), Lit("_all")>>
CmdPerTable == <<Var("project_name"), Lit("_"), Var("environment"), Lit("_"), Var("table")>>
CmdEtl == <<Lit("load_etl_"), Var("team")>>
Commands == {CmdAll, CmdPerTable, CmdEtl}
PolicyFiles == UNION {[1..n -> Commands] : n \in 0..MaxCommands}

RangerConfigs == {{}, {<<"variables", <<[name |-> "team", value |-> "bi"]>>>>}}

RemoteNames == {<<ProjectName, "_", Environment, "_all">>, <<ProjectName, "_", Environment, "_old">>,
                <<"other_", "x">>}
RemotePolicies == UNION {[sub -> {"old"}] : sub \in SUBSET RemoteNames}

\* the tag sets the rows of an entity may carry, in the source and in the catalog
SrcTagOptions(id) == IF id \in {T1, CA} THEN SrcTagSets ELSE {{"new"}}
AtlasTagOptions(id) == IF id \in {T1, CA} THEN AtlasTagSets ELSE {{"dev"}}

\* every mapping from a subset of ids to the tag sets of each id
MappingsBy(ids, Options(_)) ==
    UNION {{f \in [sub -> UNION {Options(i) : i \in ids}] : \A i \in sub : f[i] \in Options(i)} :
             sub \in SUBSET ids}

\* a file that does not exist has no rows
FileRows(file, rows) == file \in present \/ rows = EmptyMap

InitLocals ==
    /\ pc = "start" /\ outcome = Running
    /\ trace = <<>> /\ output = <<>>
    /\ maxRetries = 0 /\ tries = 0
    /\ src_data_table = EmptyMap /\ src_data_column = EmptyMap
    /\ full_tables_atlas = EmptyMap /\ full_columns_atlas = EmptyMap
    /\ policies = <<>> /\ next = 1 /\ actions = <<>>

InitTagsToAtlas ==
    /\ cmd = "tags_to_atlas"
    /\ retry \in 0..MaxRetryFlag
    /\ conf \in Configs
    /\ verbose \in {0, 1}
    /\ dryrun = FALSE
    /\ present \in SUBSET {TableFile, ColumnFile}
    /\ fileTables \in MappingsBy({T1}, SrcTagOptions)
    /\ fileColumns \in MappingsBy({CA}, SrcTagOptions)
    /\ FileRows(TableFile, fileTables) /\ FileRows(ColumnFile, fileColumns)
    /\ policyFile = <<>>
    /\ atlasTables = [id \in {T1} |-> {"dev"}]
    /\ atlasColumns = [id \in {CA} |-> {"dev"}]
    /\ atlasTags = {"dev", "pii"}
    /\ rangerPolicies = EmptyMap

InitAudit ==
    /\ cmd = "audit_tags"
    /\ retry = 0 /\ conf = {} /\ verbose = 0 /\ dryrun = FALSE
    /\ present \in SUBSET {TableFile, ColumnFile}
    /\ fileTables \in MappingsBy(SrcTableIds, SrcTagOptions)
    /\ fileColumns \in MappingsBy(SrcColumnIds, SrcTagOptions)
    /\ FileRows(TableFile, fileTables) /\ FileRows(ColumnFile, fileColumns)
    /\ policyFile = <<>>
    /\ atlasTables \in MappingsBy(AtlasTableIds, AtlasTagOptions)
    /\ atlasColumns \in MappingsBy(AtlasColumnIds, AtlasTagOptions)
    /\ atlasTags \in AtlasVocabularies
    /\ rangerPolicies = EmptyMap

InitRulesToRanger ==
    /\ cmd = "rules_to_ranger"
    /\ retry = 0
    /\ conf \in RangerConfigs
    /\ verbose \in {0, 1}
    /\ dryrun \in BOOLEAN
    /\ present \in SUBSET {TableFile, ColumnFile, PolicyFile}
    /\ fileTables \in {EmptyMap, [id \in {T1} |-> {"pii"}], [id \in {T1, T2} |-> {"pii"}]}
    /\ fileColumns \in {EmptyMap, [id \in {CA} |-> {"pii"}]}
    /\ FileRows(TableFile, fileTables) /\ FileRows(ColumnFile, fileColumns)
    /\ policyFile \in PolicyFiles
    /\ PolicyFile \in present \/ policyFile = <<>>
    /\ atlasTables = EmptyMap /\ atlasColumns = EmptyMap /\ atlasTags = {}
    /\ rangerPolicies \in RemotePolicies

Init == InitLocals /\ (InitTagsToAtlas \/ InitAudit \/ InitRulesToRanger)

Next ==
    \/ TagsToAtlasStart
    \/ TagsToAtlasReadTables
    \/ TagsToAtlasSyncTables
    \/ TagsToAtlasReadColumns
    \/ TagsToAtlasSyncColumns
    \/ RulesToRangerStart
    \/ RulesToRangerLoad
    \/ RulesToRangerUpsert
    \/ RulesToRangerDelete
    \/ RulesToRangerDone
    \/ AuditStart
    \/ AuditReadSrc
    \/ AuditUnknownTags
    \/ AuditTablesFromAtlas
    \/ AuditColumnsFromAtlas
    \/ AuditReport

Spec == Init /\ [][Next]_vars

\* ==================================================================== claims
HasRetriesKey == \E p \in conf : p[1] = "retries"
PushCount(op) == Count(trace, op)
Ended == pc = "done"

\* C1: in tags_to_atlas the budget handed to the syncer is (--retry count) x
\* (config 'retries', 1 when the key is absent); without --retry the budget is 0,
\* whatever 'retries' says, and each push is attempted once and nothing sleeps.
C1_RetryBudget ==
    (cmd = "tags_to_atlas" /\ trace # <<>>) =>
        /\ \A p \in conf : p[1] = "retries" => maxRetries = retry * p[2]
        /\ ~HasRetriesKey => maxRetries = retry
        /\ retry = 0 =>
            /\ maxRetries = 0
            /\ PushCount("sleep") = 0
            /\ PushCount("pushTableTags") <= 1 /\ PushCount("pushColumnTags") <= 1
            /\ pc \in {"read_column", "sync_column"} => PushCount("pushTableTags") = 1
            /\ outcome.kind = "completed" =>
                    PushCount("pushTableTags") = 1 /\ PushCount("pushColumnTags") = 1
            /\ (Ended /\ outcome.kind = "ClickException" /\ outcome.cause = "SyncError") =>
                    PushCount("pushTableTags") = 1

\* a run without --retry under 'retries' = 3 where the one table push failed
C1_Witness ==
    /\ cmd = "tags_to_atlas" /\ retry = 0 /\ <<"retries", 3>> \in conf
    /\ Ended /\ outcome.kind = "ClickException" /\ outcome.cause = "SyncError"
    /\ PushCount("pushTableTags") = 1 /\ PushCount("pushColumnTags") = 0

\* the push whose SyncError ended the run, and its attempts in the trace
TerminalSyncError ==
    /\ cmd = "tags_to_atlas" /\ Ended
    /\ outcome.kind = "ClickException" /\ outcome.cause = "SyncError"
    /\ trace # <<>> /\ trace[Len(trace)].res = "SyncError"
FailedOp == trace[Len(trace)].op
FirstAttempt == CHOOSE i \in Indices(trace, FailedOp) : \A j \in Indices(trace, FailedOp) : i <= j
ConfiguredRetries == IF HasRetriesKey THEN (CHOOSE p \in conf : p[1] = "retries")[2] ELSE 1

\* C2 as stated: a push that always fails with SyncError is attempted exactly
\* (--retry count) x (configured retries) times before the error propagates.
C2_Original ==
    TerminalSyncError => PushCount(FailedOp) = retry * ConfiguredRetries

\* C2 amended: a push that always fails with SyncError is attempted exactly
\* (--retry count) x (configured retries) + 1 times: from its first attempt on,
\* the trace alternates attempt, sleep of SLEEP_ON_RETRY_SECONDS, attempt, ...,
\* every attempt failing with SyncError, and ends with an attempt, not a sleep.
C2_Attempts ==
    TerminalSyncError =>
        /\ PushCount(FailedOp) = retry * ConfiguredRetries + 1
        /\ Len(trace) - FirstAttempt + 1 = 2 * (retry * ConfiguredRetries) + 1
        /\ \A i \in FirstAttempt..Len(trace) :
              IF (i - FirstAttempt) % 2 = 0
              THEN trace[i].op = FailedOp /\ trace[i].res = "SyncError"
              ELSE trace[i].op = "sleep" /\ trace[i].arg = SLEEP_ON_RETRY_SECONDS

\* --retry twice under 'retries' = 3: the table push failed for good
C2_Witness ==
    /\ TerminalSyncError /\ retry = 2 /\ <<"retries", 3>> \in conf
    /\ FailedOp = "pushTableTags" /\ PushCount("pushTableTags") = 7

\* C3: no column push happens before the table push has ended in success; after
\* a table push that ended in SyncError or IOError there is no column push.
C3_TablesBeforeColumns ==
    cmd = "tags_to_atlas" =>
        \A i \in Indices(trace, "pushColumnTags") :
            \E j \in Indices(trace, "pushTableTags") :
                /\ j < i
                /\ trace[j].res = "ok"
                /\ \A k \in Indices(trace, "pushTableTags") : k <= j

\* a column push after a table push that needed a retry
C3_Witness ==
    /\ cmd = "tags_to_atlas"
    /\ PushCount("pushTableTags") >= 2 /\ PushCount("pushColumnTags") >= 1

\* the source files a command requires
Required ==
    IF cmd = "rules_to_ranger" THEN {TableFile, ColumnFile, PolicyFile}
    ELSE {TableFile, ColumnFile}

\* C4: with a required source file missing, every command ends by 'return 0'
\* and builds no client and issues no remote call.
C4_MissingFiles ==
    ~(Required \subseteq present) =>
        /\ trace = <<>>
        /\ outcome.kind \in {"running", "return0"}
        /\ Ended => outcome.kind = "return0"
        /\ pc \in {"start", "done"}

\* rules_to_ranger ended by 'return 0' with only ranger_policies.json missing
C4_Witness ==
    /\ cmd = "rules_to_ranger" /\ present = {TableFile, ColumnFile}
    /\ Ended /\ outcome.kind = "return0" /\ trace = <<>>

\* what the audit may do to the catalog: build the client and read
AuditOps == {"atlas.Client", "tags_from_atlas", "tables_from_atlas", "columns_from_atlas"}

Lines(kind) == {i \in DOMAIN output : output[i].kind = kind}
LinesAbout(kind, id) == {i \in Lines(kind) : output[i].id = id}
AuditCompleted == cmd = "audit_tags" /\ outcome.kind = "completed"

\* C5: audit_tags only reads: no step of it changes the catalog, and every
\* call it has issued is the client's construction or one of the three reads.
C5_AuditReadOnly ==
    [][cmd = "audit_tags" =>
        /\ atlasTables' = atlasTables /\ atlasColumns' = atlasColumns /\ atlasTags' = atlasTags
        /\ \A i \in DOMAIN trace' : trace'[i].op \in AuditOps /\ trace'[i].op \notin WriteOps]_vars

\* an audit that reported a missing tag on a table and ended
C5_Witness ==
    /\ AuditCompleted
    /\ Lines("Atlas missing following tags for table") # {}
    /\ Len(trace) = 4

\* C6: the audit reports exactly the columns of the source that the catalog
\* lacks, and no line names a column that only the catalog has.
C6_ColumnAsymmetry ==
    AuditCompleted =>
        LET Cs == DOMAIN fileColumns
            Cc == DOMAIN atlasColumns
            only == Lines("Columns only found in metadata")
        IN /\ Cs \ Cc # {} => \E i \in only : only = {i} /\ output[i].items = Cs \ Cc
           /\ Cs \ Cc = {} => only = {}
           /\ \A i \in DOMAIN output :
                 /\ output[i].id \notin Cc \ Cs
                 /\ output[i].kind = "Columns only found in metadata" =>
                        output[i].items \cap (Cc \ Cs) = {}

\* source columns {a, b}, catalog columns {a, c}: b is reported
C6_Witness ==
    /\ AuditCompleted
    /\ DOMAIN fileColumns = {CA, CB} /\ DOMAIN atlasColumns = {CA, CC}
    /\ \E i \in Lines("Columns only found in metadata") : output[i].items = {CB}

\* the lines the audit owes an entity with source tags S and catalog tags C
DiffReported(what, id, S, C) ==
    LET missingAtlas == LinesAbout("Atlas missing following tags for " \o what, id)
        missingMeta == LinesAbout("Metadata missing following tags for " \o what, id)
    IN /\ S \ C # {} => \E i \in missingAtlas : missingAtlas = {i} /\ output[i].items = S \ C
       /\ S \ C = {} => missingAtlas = {}
       /\ C \ S # {} => \E i \in missingMeta : missingMeta = {i} /\ output[i].items = C \ S
       /\ C \ S = {} => missingMeta = {}
       /\ S = C => \A i \in DOMAIN output : output[i].id # id

\* C7: for every table and column on both sides the audit reports (S \ C, C \ S),
\* S the source tags with the environment tag, C the catalog's, compared as
\* exact strings; it prints nothing for the entity when S = C.
C7_DiffCorrect ==
    AuditCompleted =>
        /\ \A id \in DOMAIN fileTables \cap DOMAIN atlasTables :
              DiffReported("table", id, fileTables[id] \cup {Environment}, atlasTables[id])
        /\ \A id \in DOMAIN fileColumns \cap DOMAIN atlasColumns :
              DiffReported("column", id, fileColumns[id] \cup {Environment}, atlasColumns[id])

\* "pii" in the source against "PII" in the catalog: both sides are reported
C7_Witness ==
    /\ AuditCompleted
    /\ T1 \in DOMAIN fileTables /\ T1 \in DOMAIN atlasTables
    /\ fileTables[T1] = {"pii"} /\ atlasTables[T1] = {"PII", "dev"}
    /\ \E i \in LinesAbout("Atlas missing following tags for table", T1) :
          output[i].items = {"pii"}
    /\ \E i \in LinesAbout("Metadata missing following tags for table", T1) :
          output[i].items = {"PII"}
    /\ CA \in DOMAIN fileColumns /\ CA \in DOMAIN atlasColumns
    /\ fileColumns[CA] \cup {"dev"} = atlasColumns[CA]

\* a command that ended by an exception
Fatal == Ended /\ outcome.kind \in {"ClickException", "uncaught"}

\* C8 as stated: in every command every fatal condition ends the command by a
\* ClickException whose message tells the operator to fix and re-run.
C8_Original ==
    Fatal => outcome.kind = "ClickException" /\ outcome.rerun

\* C8 amended: tags_to_atlas turns a SyncError or an IOError into a
\* ClickException that tells to fix and re-run; audit_tags turns an IOError into
\* a ClickException with the error's own message only; every other exception,
\* and every exception of rules_to_ranger, leaves the command as it was raised.
C8_Propagation ==
    Fatal =>
        CASE cmd = "tags_to_atlas" ->
                IF outcome.cause \in {"SyncError", "IOError"}
                THEN outcome.kind = "ClickException" /\ outcome.rerun
                ELSE outcome.kind = "uncaught"
          [] cmd = "audit_tags" ->
                IF outcome.cause = "IOError"
                THEN outcome.kind = "ClickException" /\ ~outcome.rerun
                ELSE outcome.kind = "uncaught"
          [] OTHER -> outcome.kind = "uncaught"

\* an audit ended by an IOError of the catalog
C8_Witness ==
    /\ cmd = "audit_tags" /\ Fatal /\ outcome.cause = "IOError"
    /\ trace # <<>> /\ trace[Len(trace)].res = "IOError"

\* the changes a run of sync_policies stands for
IntendedChanges(ps, remote) == Len(ps) + Cardinality(Stale(remote, Prefixes, ps))

\* C9: under --dryrun no step of rules_to_ranger changes the policy service or
\* issues a mutating call, and a run that ends has described one action per
\* intended change: one per policy, in the order of the policies, then the deletes.
C9_DryRun ==
    [][(cmd = "rules_to_ranger" /\ dryrun) =>
        /\ rangerPolicies' = rangerPolicies
        /\ \A i \in DOMAIN trace' : trace'[i].op \notin WriteOps
        /\ outcome'.kind = "completed" =>
            /\ Len(actions') = IntendedChanges(policies', rangerPolicies')
            /\ \A i \in DOMAIN policies' :
                  /\ actions'[i].name = policies'[i].name
                  /\ actions'[i].action =
                        IF policies'[i].name \in DOMAIN rangerPolicies' THEN "update" ELSE "create"
            /\ {actions'[i].name : i \in Len(policies') + 1..Len(actions')}
                    = Stale(rangerPolicies', Prefixes, policies')
            /\ \A i \in Len(policies') + 1..Len(actions') : actions'[i].action = "delete"]_vars

\* a dry run that described a create, an update and a delete
C9_Witness ==
    /\ cmd = "rules_to_ranger" /\ dryrun /\ outcome.kind = "completed"
    /\ \E i, j, k \in DOMAIN actions :
          /\ i < j /\ j < k
          /\ actions[i].action = "update" /\ actions[j].action = "create"
          /\ actions[k].action = "delete"
    /\ rangerPolicies # EmptyMap

\* the place of a line in the report
Section(line) ==
    CASE line.kind = "Tag(s) missing in Atlas" -> 1
      [] line.kind = "Tables only found in Atlas schema" -> 2
      [] line.kind = "Tables only found in metadata schema" -> 3
      [] line.kind = "Columns only found in metadata" -> 4
      [] line.kind \in {"Atlas missing following tags for table",
                         "Metadata missing following tags for table"} -> 5
      [] line.kind \in {"Atlas missing following tags for column",
                         "Metadata missing following tags for column"} -> 6
      [] OTHER -> 0

SourceTags ==
    UNION {fileTables[id] \cup {Environment} : id \in DOMAIN fileTables}
        \cup UNION {fileColumns[id] \cup {Environment} : id \in DOMAIN fileColumns}

\* the catalog's tables in the schemas the table file names
CatalogTablesOfSourceSchemas ==
    {t \in DOMAIN atlasTables : \E s \in DOMAIN fileTables : s[1] = t[1]}

\* C10: the report goes unknown tags, tables only in the catalog, tables only
\* in the source, columns only in the source, table tag differences, column tag
\* differences; a section is printed only when it has something to list.
C10_ReportOrder ==
    cmd = "audit_tags" =>
        /\ \A i, j \in DOMAIN output : i < j => Section(output[i]) <= Section(output[j])
        /\ \A i, j \in DOMAIN output :
              (Section(output[i]) \in 1..4 /\ Section(output[i]) = Section(output[j])) => i = j
        /\ \A i \in DOMAIN output : Section(output[i]) # 0 => output[i].items # {}
        /\ AuditCompleted =>
            /\ (Lines("Tag(s) missing in Atlas") # {}) = (SourceTags \ atlasTags # {})
            /\ \A i \in Lines("Tag(s) missing in Atlas") :
                  output[i].items = SourceTags \ atlasTags
            /\ (Lines("Tables only found in Atlas schema") # {})
                    = (CatalogTablesOfSourceSchemas \ DOMAIN fileTables # {})
            /\ \A i \in Lines("Tables only found in Atlas schema") :
                  output[i].items = CatalogTablesOfSourceSchemas \ DOMAIN fileTables
            /\ (Lines("Tables only found in metadata schema") # {})
                    = (DOMAIN fileTables \ DOMAIN atlasTables # {})
            /\ \A i \in Lines("Tables only found in metadata schema") :
                  output[i].items = DOMAIN fileTables \ DOMAIN atlasTables

\* a report with all six sections
C10_Witness ==
    /\ AuditCompleted
    /\ {Section(output[i]) : i \in DOMAIN output} = 1..6

====
